---------------------------- MODULE Spec2Model ----------------------------
(***************************************************************************)
(* godot_grpc: the client facade (GrpcClient), its channel manager         *)
(* (GrpcChannelPool) and the per-call stream engine (GrpcStream) with its  *)
(* reader thread, writer thread, outgoing queue and completion queue.      *)
(*                                                                         *)
(* Threads of the model: the host thread (the script calling the facade),  *)
(* one reader and one writer thread per engine, and the gRPC transport,    *)
(* which completes the operations issued on a call and posts one event per *)
(* operation on the call's completion queue.                               *)
(***************************************************************************)
EXTENDS Integers, Sequences, FiniteSets, TLC

(* ------------------------------ bounds --------------------------------- *)

\* Stream handles the host allocates in one run.
MaxStreams == 1

\* send() calls the host has accepted on one stream.
MaxSends == 2

\* Messages the server produces on one call.
MaxServerMsgs == 1

Handles == 1..MaxStreams

\* Threads that call start_stream at the same time.
MaxCallers == 2

Callers == 1..MaxCallers

(* --------------------------- value domains ----------------------------- *)

\* enum class StreamType
StreamTypes == {"SERVER_STREAMING", "CLIENT_STREAMING", "BIDIRECTIONAL"}

\* PackedByteArray values the host passes to stream_send: the host numbers
\* its messages, so that their order can be told.
Payloads == {<<k>> : k \in 1..MaxSends}

\* request_bytes the host passes to server_stream_start (empty or not).
Requests == {<< >>, <<7>>}

\* Wire buffers (lists of slices) the server answers with: its k-th message
\* is two slices.
ServerMsgs == {<< <<k>>, <<k, k>> >> : k \in 1..MaxServerMsgs}

\* Final statuses a server (or the connection) ends a call with.
ServerStatuses == {"OK", "UNAVAILABLE"}

\* Operations of the transport's async call interface.
OpKinds == {"StartCall", "Write", "WritesDone", "Read", "Finish"}

\* A Dictionary without keys, and the option dictionaries a host passes:
\* each of the keys "timeout_ms", "deadline_ms" and "metadata" present or not.
NoOptions == [k \in {} |-> 0]
Durations == {0, 50, 5000}
CallOptions ==
    {t @@ d @@ m :
        t \in {NoOptions} \cup {("timeout_ms" :> n) : n \in Durations},
        d \in {NoOptions} \cup {("deadline_ms" :> n) : n \in Durations},
        m \in {NoOptions, ("metadata" :> << <<"authorization", "token">> >>)}}

\* Readings of the system clock, in milliseconds.
MaxNow == 3
ClockReadings == 0..MaxNow

\* std::make_unique<grpc::ClientContext>(): no deadline, no metadata.
NewClientContext == [has_deadline |-> FALSE, deadline |-> 0, metadata |-> << >>]

\* Threads, as owners of streams_mutex_.
NoThread == <<"none", 0>>
HostThread == <<"host", 0>>
Reader(h) == <<"reader", h>>

(* ------------------------------- state --------------------------------- *)

VARIABLES
    \* GrpcChannelPool
    channel_,             \* a channel object is held
    stub_,                \* a generic stub is held
    \* GrpcClient
    next_stream_id_,
    active_streams_,      \* keys of the handle -> engine map
    streams_mutex_,       \* owner of the registry mutex
    deferred,             \* call_deferred("emit_signal", ...) calls, in order
    \* the host thread
    hpc,                  \* where the host thread is
    hcur,                 \* the handle the host's current call works on
    hop,                  \* the facade method the host is in
    doomed,               \* engines clear() has still to destroy
    hmsg,                 \* the payload of the stream_send in progress
    hlate,                \* the handle's terminal callback had returned when the call began
    lastRet,              \* the last facade call that returned, with its result
    crashed,              \* std::terminate was called
    \* GrpcStream, per handle
    obj,                  \* "none", "alive", "dying" (in ~GrpcStream), "freed"
    stream_type_,
    initial_request_bytes_,
    active_,
    writes_done_,
    write_queue_closed_,
    write_queue_,
    rthr,                 \* where the reader thread is
    wthr,                 \* where the writer thread is
    response_buffer,      \* the reader's loop-local ByteBuffer
    status,               \* the grpc::Status the pending Finish fills
    cq_,                  \* events posted on the completion queue, in order
    cq_shutdown,
    \* the call inside the transport, per handle
    call,                 \* "none", "open", "cancelled", "ended"
    finalStatus,          \* the status the call ended with
    ops,                  \* operations issued and not yet completed
    \* what happened, per handle
    accepted,             \* payloads of the sends that returned true
    written,              \* buffers handed to Write, in order
    wdone,                \* number of WritesDone operations issued
    produced,             \* messages the transport completed a Read with
    delivered,            \* payloads passed to on_message
    fired,                \* terminal callbacks invoked (on_finished / on_error)
    cancelCalled,         \* cancel() found the engine active
    \* start_stream run by several threads at once, per caller
    spc,                  \* where the caller is inside start_stream
    stream_id,            \* the caller's local stream_id
    handed,               \* handles start_stream returned, in the order of the returns
    \* GrpcClient::unary, on the host thread
    u_request_buffer,     \* the request as a ByteBuffer
    u_response_buffer,    \* the ByteBuffer Finish fills
    u_status,             \* the grpc::Status Finish fills
    u_ok,                 \* the ok flag cq.Next reported
    u_ops,                \* transport operations the call issued
    u_ret,                \* << >> while nothing was returned, else <<the bytes returned>>
    \* StatusMap, applied to one grpc::Status
    st_status,            \* the status: code, error_message, error_details
    st_godot_error,       \* what grpc_to_godot_error returned for its code
    st_formatted,         \* what format_error returned for it
    st_signal,            \* the notification deferred for it: signal, status_code, message
    \* GrpcClient::create_context
    call_opts,            \* the Dictionary of call options
    now,                  \* what system_clock::now() returned, in milliseconds
    context,              \* the ClientContext: its deadline and its metadata
    \* public methods called from several threads, per caller
    t_method,             \* the method the caller is in, or "none"
    t_step,               \* how many of its accesses to shared state are done
    t_busy,               \* the caller is in the middle of its next access
    \* the host's message queue
    emitted,              \* signals emitted so far, each with the thread that emitted it
    \* the network
    server_reachable      \* a server answers at the endpoint

clientVars == <<channel_, stub_, next_stream_id_, active_streams_, streams_mutex_, deferred>>
hostVars == <<hpc, hcur, hop, hmsg, doomed, hlate, lastRet, crashed>>
engineVars == <<obj, stream_type_, initial_request_bytes_, active_, writes_done_,
                write_queue_closed_, write_queue_>>
threadVars == <<rthr, wthr, response_buffer, status, cq_, cq_shutdown>>
callVars == <<call, finalStatus, ops>>
histVars == <<accepted, written, wdone, produced, delivered, fired, cancelCalled>>

startVars == <<spc, stream_id, handed>>
unaryVars == <<u_request_buffer, u_response_buffer, u_status, u_ok, u_ops, u_ret>>
statusVars == <<st_status, st_godot_error, st_formatted, st_signal>>
contextVars == <<call_opts, now, context>>
raceVars == <<t_method, t_step, t_busy>>
emitVars == <<emitted>>
envVars == <<server_reachable>>
utilVars == <<statusVars, contextVars, raceVars, emitVars, envVars>>
facadeVars == <<startVars, unaryVars, utilVars>>

vars == <<clientVars, hostVars, engineVars, threadVars, callVars, histVars, facadeVars>>

(* ------------------------------ helpers -------------------------------- *)

\* grpc::Slice slice(data, size); grpc::ByteBuffer temp(&slice, 1): the bytes
\* become a buffer of one slice.
ToByteBuffer(bytes) == << bytes >>

\* response_buffer.Dump(&slices) followed by the resize/memcpy loop: the
\* slices are appended, in order, to one byte array.
RECURSIVE ConcatSlices(_)
ConcatSlices(slices) ==
    IF slices = << >> THEN << >>
    ELSE Head(slices) \o ConcatSlices(Tail(slices))

IsPrefix(s, t) == Len(s) <= Len(t) /\ SubSeq(t, 1, Len(s)) = s

\* The terminal notifications ("finished", "error") deferred for a handle.
IsTerminal(n) == n.sig \in {"finished", "error"}
TerminalNotifications(h) == SelectSeq(deferred, LAMBDA n : n.id = h /\ IsTerminal(n))

\* What a facade call returned: the method, the handle it was given (or 0)
\* and the value (true and false as 1 and 0).
Returned(op, id, ret) == [op |-> op, id |-> id, ret |-> ret]

(* ------------------------------- Init ---------------------------------- *)

\* The facade whose next handle is first_id, with nothing connected, started
\* or called.
InitFrom(first_id) ==
    /\ channel_ = FALSE
    /\ stub_ = FALSE
    /\ next_stream_id_ = first_id
    /\ active_streams_ = {}
    /\ streams_mutex_ = NoThread
    /\ deferred = << >>
    /\ hpc = "idle"
    /\ hcur = 0
    /\ hop = "none"
    /\ hmsg = << >>
    /\ doomed = {}
    /\ hlate = FALSE
    /\ lastRet = Returned("none", 0, 0)
    /\ crashed = FALSE
    /\ obj = [h \in Handles |-> "none"]
    /\ stream_type_ = [h \in Handles |-> "SERVER_STREAMING"]
    /\ initial_request_bytes_ = [h \in Handles |-> << >>]
    /\ active_ = [h \in Handles |-> FALSE]
    /\ writes_done_ = [h \in Handles |-> FALSE]
    /\ write_queue_closed_ = [h \in Handles |-> FALSE]
    /\ write_queue_ = [h \in Handles |-> << >>]
    /\ rthr = [h \in Handles |-> "none"]
    /\ wthr = [h \in Handles |-> "none"]
    /\ response_buffer = [h \in Handles |-> << >>]
    /\ status = [h \in Handles |-> "OK"]
    /\ cq_ = [h \in Handles |-> << >>]
    /\ cq_shutdown = [h \in Handles |-> FALSE]
    /\ call = [h \in Handles |-> "none"]
    /\ finalStatus = [h \in Handles |-> "OK"]
    /\ ops = [h \in Handles |-> [k \in OpKinds |-> 0]]
    /\ accepted = [h \in Handles |-> << >>]
    /\ written = [h \in Handles |-> << >>]
    /\ wdone = [h \in Handles |-> 0]
    /\ produced = [h \in Handles |-> << >>]
    /\ delivered = [h \in Handles |-> << >>]
    /\ fired = [h \in Handles |-> << >>]
    /\ cancelCalled = [h \in Handles |-> FALSE]
    /\ spc = [c \in Callers |-> "idle"]
    /\ stream_id = [c \in Callers |-> 0]
    /\ handed = << >>
    /\ u_request_buffer = << >>
    /\ u_response_buffer = << >>
    /\ u_status = "OK"
    /\ u_ok = FALSE
    /\ u_ops = 0
    /\ u_ret = << >>
    /\ st_status = [code |-> 0, message |-> "", details |-> ""]
    /\ st_godot_error = "none"
    /\ st_formatted = << >>
    /\ st_signal = [sig |-> "none", code |-> 0, message |-> << >>]
    /\ call_opts = NoOptions
    /\ now = 0
    /\ context = NewClientContext
    /\ t_method = [c \in Callers |-> "none"]
    /\ t_step = [c \in Callers |-> 0]
    /\ t_busy = [c \in Callers |-> FALSE]
    /\ emitted = << >>
    /\ server_reachable = FALSE

\* GrpcClient::GrpcClient(): next_stream_id_(1).
Init == InitFrom(1)

(* --------------------------- the transport ----------------------------- *)

\* A TryCancel that leaves the call as it is.
TryCancelIgnored(c) == c

\* ClientContext::TryCancel(): an open call becomes cancelled; a call that
\* has already ended keeps its final status.
TryCancel(c) == IF c = "open" THEN "cancelled" ELSE c

\* The status Finish reports for a call that is no longer open.
CallStatus(h) == IF call[h] = "cancelled" THEN "CANCELLED" ELSE finalStatus[h]

\* The server (or the connection) ends an open call with a final status.
ServerEnd(h) ==
    /\ ~crashed
    /\ call[h] = "open"
    /\ \E s \in ServerStatuses :
          /\ call' = [call EXCEPT ![h] = "ended"]
          /\ finalStatus' = [finalStatus EXCEPT ![h] = s]
    /\ UNCHANGED <<clientVars, hostVars, engineVars, threadVars, ops, histVars>>
    /\ UNCHANGED facadeVars

\* StartCall, Write and WritesDone succeed on an open call and fail on a call
\* that was cancelled or has ended.  One event is posted on the queue.
CompleteSend(h) ==
    /\ ~crashed
    /\ \E op \in {"StartCall", "Write", "WritesDone"} :
          /\ ops[h][op] > 0
          /\ ops' = [ops EXCEPT ![h][op] = @ - 1]
          /\ cq_' = [cq_ EXCEPT ![h] = Append(@, [op |-> op, ok |-> (call[h] = "open")])]
    /\ UNCHANGED <<clientVars, hostVars, engineVars, rthr, wthr, response_buffer,
                   status, cq_shutdown, call, finalStatus, histVars>>
    /\ UNCHANGED facadeVars

\* A Read on an open call completes with the server's next message, which is
\* stored through the ByteBuffer pointer the Read was given.  The reader's
\* buffer is a loop-local: when the reader has left the iteration that issued
\* the Read (it took another operation's event for it), the pointer dangles.
\* If the reader waits in a later iteration the old pointer names the slot of
\* the new buffer, so the message either lands there or is lost; if the
\* reader has left the loop the message is lost.
CompleteReadOk(h) ==
    /\ ~crashed
    /\ ops[h]["Read"] > 0
    /\ call[h] = "open"
    /\ Len(produced[h]) < MaxServerMsgs
    /\ \E m \in ServerMsgs :
          /\ Head(m) = <<Len(produced[h]) + 1>>
          /\ produced' = [produced EXCEPT ![h] = Append(@, ConcatSlices(m))]
          /\ \/ /\ rthr[h] = "read_wait"
                /\ response_buffer' = [response_buffer EXCEPT ![h] = m]
             \/ /\ rthr[h] /= "read_wait" \/ ops[h]["Read"] > 1
                /\ UNCHANGED response_buffer
    /\ ops' = [ops EXCEPT ![h]["Read"] = @ - 1]
    /\ cq_' = [cq_ EXCEPT ![h] = Append(@, [op |-> "Read", ok |-> TRUE])]
    /\ UNCHANGED <<clientVars, hostVars, engineVars, rthr, wthr, status, cq_shutdown,
                   call, finalStatus, accepted, written, wdone, delivered, fired,
                   cancelCalled>>
    /\ UNCHANGED facadeVars

\* A Read on a call that was cancelled or has ended fails: no more messages.
CompleteReadFail(h) ==
    /\ ~crashed
    /\ ops[h]["Read"] > 0
    /\ call[h] /= "open"
    /\ ops' = [ops EXCEPT ![h]["Read"] = @ - 1]
    /\ cq_' = [cq_ EXCEPT ![h] = Append(@, [op |-> "Read", ok |-> FALSE])]
    /\ UNCHANGED <<clientVars, hostVars, engineVars, rthr, wthr, response_buffer,
                   status, cq_shutdown, call, finalStatus, histVars>>
    /\ UNCHANGED facadeVars

\* Finish completes once the call is over and stores the final status through
\* the grpc::Status pointer it was given; the status object is a local of the
\* frame that issued Finish, so the store is lost when that frame has gone on.
CompleteFinish(h) ==
    /\ ~crashed
    /\ ops[h]["Finish"] > 0
    /\ call[h] /= "open"
    /\ ops' = [ops EXCEPT ![h]["Finish"] = @ - 1]
    /\ cq_' = [cq_ EXCEPT ![h] = Append(@, [op |-> "Finish", ok |-> TRUE])]
    /\ status' = [status EXCEPT ![h] =
                    IF rthr[h] = "finish_wait" \/ (hpc = "start_finish_wait" /\ hcur = h)
                    THEN CallStatus(h) ELSE @]
    /\ UNCHANGED <<clientVars, hostVars, engineVars, rthr, wthr, response_buffer,
                   cq_shutdown, call, finalStatus, histVars>>
    /\ UNCHANGED facadeVars

(* ------------------------ GrpcChannelPool ------------------------------ *)

\* create_channel: CreateCustomChannel's result is assigned to channel_; when
\* it is null the function returns false before touching stub_.
create_channel(created) ==
    /\ channel_' = created
    /\ stub_' = IF created THEN TRUE ELSE stub_

(* --------------------- GrpcClient, on the host thread ------------------ *)

\* GrpcClient::connect
Connect ==
    /\ ~crashed
    /\ hpc = "idle"
    /\ \E created \in BOOLEAN :
          /\ create_channel(created)
          /\ lastRet' = Returned("connect", 0, IF created THEN 1 ELSE 0)
    /\ UNCHANGED <<next_stream_id_, active_streams_, streams_mutex_, deferred,
                   hpc, hcur, hop, doomed, hmsg, hlate, crashed,
                   engineVars, threadVars, callVars, histVars>>
    /\ UNCHANGED facadeVars

\* start_stream without a stub: returns -1.
StartStreamNotConnected ==
    /\ ~crashed
    /\ hpc = "idle"
    /\ ~stub_
    /\ lastRet' = Returned("start_stream", 0, -1)
    /\ UNCHANGED <<clientVars, hpc, hcur, hop, doomed, hmsg, hlate, crashed,
                   engineVars, threadVars, callVars, histVars>>
    /\ UNCHANGED facadeVars

\* start_stream: allocates the id under streams_mutex_, constructs the engine
\* and enters GrpcStream::start(): the active_ exchange, PrepareCall and, when
\* a call object came back, StartCall.
StartStream(t, req) ==
    /\ ~crashed
    /\ hpc = "idle"
    /\ stub_
    /\ next_stream_id_ <= MaxStreams
    /\ streams_mutex_ = NoThread
    /\ t = "SERVER_STREAMING" \/ req = << >>
    /\ LET id == next_stream_id_ IN
       /\ next_stream_id_' = id + 1
       /\ obj' = [obj EXCEPT ![id] = "alive"]
       /\ stream_type_' = [stream_type_ EXCEPT ![id] = t]
       /\ initial_request_bytes_' = [initial_request_bytes_ EXCEPT ![id] = req]
       /\ active_' = [active_ EXCEPT ![id] = TRUE]
       /\ hcur' = id
       /\ hop' = "start_stream"
       /\ \E prepared \in BOOLEAN :
             IF prepared
             THEN /\ call' = [call EXCEPT ![id] = "open"]
                  /\ ops' = [ops EXCEPT ![id]["StartCall"] = @ + 1]
                  /\ hpc' = "start_call_wait"
                  /\ UNCHANGED fired
             ELSE /\ fired' = [fired EXCEPT ![id] =
                                 Append(@, [cb |-> "error", code |-> "INTERNAL"])]
                  /\ hpc' = "start_cb_lock"
                  /\ UNCHANGED <<call, ops>>
    /\ UNCHANGED <<channel_, stub_, active_streams_, streams_mutex_, deferred,
                   doomed, hmsg, hlate, lastRet, crashed, writes_done_, write_queue_closed_,
                   write_queue_, threadVars, finalStatus,
                   accepted, written, wdone, produced, delivered, cancelCalled>>
    /\ UNCHANGED facadeVars

\* The threads start() spawns: the reader always, the writer for
\* client-streaming and bidirectional streams.
SpawnReader(h) == [rthr EXCEPT ![h] = "loop"]
SpawnWriter(h) ==
    [wthr EXCEPT ![h] = IF stream_type_[h] \in {"CLIENT_STREAMING", "BIDIRECTIONAL"}
                        THEN "loop" ELSE @]

\* start(): cq_->Next after StartCall.  Failure reports INTERNAL through
\* on_error_.  A server-streaming stream with a non-empty request writes it;
\* otherwise a non-empty request is queued; then the threads are spawned.
StartCallNext ==
    /\ ~crashed
    /\ hpc = "start_call_wait"
    /\ cq_[hcur] /= << >>
    /\ LET h == hcur
           ev == Head(cq_[hcur])
       IN
       /\ cq_' = [cq_ EXCEPT ![h] = Tail(@)]
       /\ IF ~ev.ok
          THEN /\ fired' = [fired EXCEPT ![h] =
                              Append(@, [cb |-> "error", code |-> "INTERNAL"])]
               /\ hpc' = "start_cb_lock"
               /\ UNCHANGED <<ops, written, write_queue_, rthr, wthr>>
          ELSE IF stream_type_[h] = "SERVER_STREAMING" /\ Len(initial_request_bytes_[h]) > 0
          THEN /\ ops' = [ops EXCEPT ![h]["Write"] = @ + 1]
               /\ written' = [written EXCEPT ![h] =
                                Append(@, ToByteBuffer(initial_request_bytes_[h]))]
               /\ hpc' = "start_write_wait"
               /\ UNCHANGED <<fired, write_queue_, rthr, wthr>>
          ELSE /\ write_queue_' = [write_queue_ EXCEPT ![h] =
                                     IF Len(initial_request_bytes_[h]) > 0
                                     THEN Append(@, initial_request_bytes_[h]) ELSE @]
               /\ rthr' = SpawnReader(h)
               /\ wthr' = SpawnWriter(h)
               /\ hpc' = "start_register"
               /\ UNCHANGED <<fired, ops, written>>
    /\ UNCHANGED <<clientVars, hcur, hop, doomed, hmsg, hlate, lastRet, crashed,
                   obj, stream_type_, initial_request_bytes_, active_, writes_done_,
                   write_queue_closed_, response_buffer, status, cq_shutdown,
                   call, finalStatus, accepted, wdone, produced, delivered,
                   cancelCalled>>
    /\ UNCHANGED facadeVars

\* start(), server-streaming: cq_->Next after the initial Write.  Failure
\* issues Finish; success issues WritesDone.
StartWriteNext ==
    /\ ~crashed
    /\ hpc = "start_write_wait"
    /\ cq_[hcur] /= << >>
    /\ LET h == hcur
           ev == Head(cq_[hcur])
       IN
       /\ cq_' = [cq_ EXCEPT ![h] = Tail(@)]
       /\ IF ~ev.ok
          THEN /\ ops' = [ops EXCEPT ![h]["Finish"] = @ + 1]
               /\ status' = [status EXCEPT ![h] = "OK"]
               /\ hpc' = "start_finish_wait"
               /\ UNCHANGED wdone
          ELSE /\ ops' = [ops EXCEPT ![h]["WritesDone"] = @ + 1]
               /\ wdone' = [wdone EXCEPT ![h] = @ + 1]
               /\ hpc' = "start_wd_wait"
               /\ UNCHANGED status
    /\ UNCHANGED <<clientVars, hcur, hop, doomed, hmsg, hlate, lastRet, crashed, engineVars,
                   rthr, wthr, response_buffer, cq_shutdown, call, finalStatus,
                   accepted, written, produced, delivered, fired, cancelCalled>>
    /\ UNCHANGED facadeVars

\* start(), server-streaming, the initial write failed: cq_->Next after
\* Finish, then on_error_ with the status' code.
StartFinishNext ==
    /\ ~crashed
    /\ hpc = "start_finish_wait"
    /\ cq_[hcur] /= << >>
    /\ cq_' = [cq_ EXCEPT ![hcur] = Tail(@)]
    /\ fired' = [fired EXCEPT ![hcur] = Append(@, [cb |-> "error", code |-> status[hcur]])]
    /\ hpc' = "start_cb_lock"
    /\ UNCHANGED <<clientVars, hcur, hop, doomed, hmsg, hlate, lastRet, crashed, engineVars,
                   rthr, wthr, response_buffer, status, cq_shutdown, callVars,
                   accepted, written, wdone, produced, delivered, cancelCalled>>
    /\ UNCHANGED facadeVars

\* start(), server-streaming: cq_->Next after WritesDone; writes_done_ is
\* set and the reader is spawned.
StartWritesDoneNext ==
    /\ ~crashed
    /\ hpc = "start_wd_wait"
    /\ cq_[hcur] /= << >>
    /\ cq_' = [cq_ EXCEPT ![hcur] = Tail(@)]
    /\ writes_done_' = [writes_done_ EXCEPT ![hcur] = TRUE]
    /\ rthr' = SpawnReader(hcur)
    /\ wthr' = SpawnWriter(hcur)
    /\ hpc' = "start_register"
    /\ UNCHANGED <<clientVars, hcur, hop, doomed, hmsg, hlate, lastRet, crashed,
                   obj, stream_type_, initial_request_bytes_, active_,
                   write_queue_closed_, write_queue_, response_buffer, status,
                   cq_shutdown, callVars, histVars>>
    /\ UNCHANGED facadeVars

\* The notification on_stream_finished / on_stream_error schedules.
Notification(h) ==
    [sig |-> IF fired[h][Len(fired[h])].cb = "finished" THEN "finished" ELSE "error",
     id |-> h, arg |-> fired[h][Len(fired[h])].code]

\* start() reported a failure: on_stream_error runs on the host thread (lock,
\* erase, unlock, call_deferred), then start() stores active_ = false and
\* returns.  Inside start_stream the handle is not yet in the map and the
\* erase does nothing.  When the handle is in the map (start() was called
\* again on a registered engine) the erase destroys the engine inside its
\* own start(): ~GrpcStream cancels, closes the queue, has no thread to join
\* and shuts the completion queue down; the store to active_ that follows
\* writes to the freed engine, which may or may not end the process.
StartErrorCallback ==
    /\ ~crashed
    /\ hpc = "start_cb_lock"
    /\ streams_mutex_ = NoThread
    /\ active_streams_' = active_streams_ \ {hcur}
    /\ deferred' = Append(deferred, Notification(hcur))
    /\ active_' = [active_ EXCEPT ![hcur] = FALSE]
    /\ IF hcur \in active_streams_
       THEN /\ call' = [call EXCEPT ![hcur] = TryCancel(@)]
            /\ write_queue_closed_' = [write_queue_closed_ EXCEPT ![hcur] = TRUE]
            /\ cq_shutdown' = [cq_shutdown EXCEPT ![hcur] = TRUE]
            /\ obj' = [obj EXCEPT ![hcur] = "freed"]
            /\ crashed' \in BOOLEAN
            /\ hpc' = "idle"
            /\ hcur' = 0
            /\ hop' = "none"
       ELSE /\ hpc' = "start_register"
            /\ UNCHANGED <<call, write_queue_closed_, cq_shutdown, obj, crashed,
                           hcur, hop>>
    /\ UNCHANGED <<channel_, stub_, next_stream_id_, streams_mutex_,
                   doomed, hmsg, hlate, lastRet,
                   stream_type_, initial_request_bytes_, writes_done_,
                   write_queue_, rthr, wthr, response_buffer, status, cq_,
                   finalStatus, ops, histVars>>
    /\ UNCHANGED facadeVars

\* start_stream: after start() has returned the engine is stored in the map
\* under streams_mutex_ and the id is returned.  A start() that was called
\* on its own just returns.
StartRegister ==
    /\ ~crashed
    /\ hpc = "start_register"
    /\ streams_mutex_ = NoThread
    /\ active_streams_' = active_streams_ \cup {hcur}
    /\ lastRet' = IF hop = "start_stream" THEN Returned("start_stream", hcur, hcur)
                  ELSE lastRet
    /\ hpc' = "idle"
    /\ hcur' = 0
    /\ hop' = "none"
    /\ UNCHANGED <<channel_, stub_, next_stream_id_, streams_mutex_, deferred,
                   doomed, hmsg, hlate, crashed,
                   engineVars, threadVars, callVars, histVars>>
    /\ UNCHANGED facadeVars

\* GrpcStream::start() called again on an engine that exists.  While active_
\* is set the exchange returns true and start() returns at once.  After the
\* first start() has failed (active_ was stored false and no thread was
\* spawned) the exchange returns false and start() runs again from
\* PrepareCall.
StartAgain(h) ==
    /\ ~crashed
    /\ hpc = "idle"
    /\ obj[h] = "alive"
    /\ h \in active_streams_
    /\ IF active_[h]
       THEN UNCHANGED vars
       ELSE /\ rthr[h] = "none"
            /\ wthr[h] = "none"
            /\ active_' = [active_ EXCEPT ![h] = TRUE]
            /\ hcur' = h
            /\ hop' = "start"
            /\ \E prepared \in BOOLEAN :
                  IF prepared
                  THEN /\ call' = [call EXCEPT ![h] = "open"]
                       /\ ops' = [ops EXCEPT ![h]["StartCall"] = @ + 1]
                       /\ hpc' = "start_call_wait"
                       /\ UNCHANGED fired
                  ELSE /\ fired' = [fired EXCEPT ![h] =
                                      Append(@, [cb |-> "error", code |-> "INTERNAL"])]
                       /\ hpc' = "start_cb_lock"
                       /\ UNCHANGED <<call, ops>>
            /\ UNCHANGED <<clientVars, doomed, hmsg, hlate, lastRet, crashed,
                           obj, stream_type_, initial_request_bytes_, writes_done_,
                           write_queue_closed_, write_queue_, threadVars, finalStatus,
                           accepted, written, wdone, produced, delivered, cancelCalled>>
    /\ UNCHANGED facadeVars

(* ------------------------- GrpcStream methods -------------------------- *)

\* GrpcStream::cancel(): an active engine cancels its context and clears
\* active_; an inactive one is left alone.
CancelledCall(h) == IF active_[h] THEN TryCancel(call[h]) ELSE call[h]

\* A send() that does not look at the stream type.
SendRejectedAnyType(h) ==
    \/ ~active_[h]
    \/ writes_done_[h]

\* GrpcStream::send(), up to the queue lock: the reasons to reject.
SendRejected(h) ==
    \/ ~active_[h]
    \/ stream_type_[h] = "SERVER_STREAMING"
    \/ writes_done_[h]

\* A dequeue that takes the newest message instead of the oldest.
FrontNewest(q) == q[Len(q)]

\* The writer's dequeue: write_queue_.front() and write_queue_.pop().
Front(q) == Head(q)
Pop(q) == Tail(q)

(* ------------- GrpcClient stream management, on the host thread -------- *)

\* stream_send: lock, find; an unknown handle returns false; a known one
\* enters GrpcStream::send(), which returns false on a rejected send and
\* otherwise goes on to lock the queue.
StreamSendBegin(h, m) ==
    /\ ~crashed
    /\ hpc = "idle"
    /\ streams_mutex_ = NoThread
    /\ Len(accepted[h]) < MaxSends
    /\ m = <<Len(accepted[h]) + 1>>
    /\ IF h \notin active_streams_ \/ SendRejected(h)
       THEN /\ lastRet' = Returned("stream_send", h, 0)
            /\ UNCHANGED <<streams_mutex_, hpc, hcur, hop, hmsg, hlate>>
       ELSE /\ streams_mutex_' = HostThread
            /\ hpc' = "send_push"
            /\ hcur' = h
            /\ hop' = "stream_send"
            /\ hmsg' = m
            /\ hlate' = (TerminalNotifications(h) /= << >>)
            /\ UNCHANGED lastRet
    /\ UNCHANGED <<channel_, stub_, next_stream_id_, active_streams_, deferred,
                   doomed, crashed, engineVars, threadVars, callVars, histVars>>
    /\ UNCHANGED facadeVars

\* A send() that pushes without looking at write_queue_closed_.
StreamSendPushAlways ==
    /\ ~crashed
    /\ hpc = "send_push"
    /\ write_queue_' = [write_queue_ EXCEPT ![hcur] = Append(@, hmsg)]
    /\ accepted' = [accepted EXCEPT ![hcur] = Append(@, hmsg)]
    /\ lastRet' = Returned("stream_send", hcur, 1)
    /\ streams_mutex_' = NoThread
    /\ hpc' = "idle"
    /\ hcur' = 0
    /\ hop' = "none"
    /\ hmsg' = << >>
    /\ hlate' = FALSE
    /\ UNCHANGED <<channel_, stub_, next_stream_id_, active_streams_, deferred,
                   doomed, crashed,
                   obj, stream_type_, initial_request_bytes_, active_, writes_done_,
                   write_queue_closed_, threadVars, callVars,
                   written, wdone, produced, delivered, fired, cancelCalled>>
    /\ UNCHANGED facadeVars

\* GrpcStream::send() under write_queue_mutex_: a closed queue rejects,
\* otherwise the message is pushed and send returns true; stream_send
\* returns that result and releases streams_mutex_.
StreamSendPush ==
    /\ ~crashed
    /\ hpc = "send_push"
    /\ IF write_queue_closed_[hcur]
       THEN /\ lastRet' = Returned("stream_send", hcur, 0)
            /\ UNCHANGED <<write_queue_, accepted>>
       ELSE /\ write_queue_' = [write_queue_ EXCEPT ![hcur] = Append(@, hmsg)]
            /\ accepted' = [accepted EXCEPT ![hcur] = Append(@, hmsg)]
            /\ lastRet' = Returned("stream_send", hcur, 1)
    /\ streams_mutex_' = NoThread
    /\ hpc' = "idle"
    /\ hcur' = 0
    /\ hop' = "none"
    /\ hmsg' = << >>
    /\ hlate' = FALSE
    /\ UNCHANGED <<channel_, stub_, next_stream_id_, active_streams_, deferred,
                   doomed, crashed,
                   obj, stream_type_, initial_request_bytes_, active_, writes_done_,
                   write_queue_closed_, threadVars, callVars,
                   written, wdone, produced, delivered, fired, cancelCalled>>
    /\ UNCHANGED facadeVars

\* A stream_close_send that closes the queue without looking the handle up.
StreamCloseSendUnchecked(h) ==
    /\ ~crashed
    /\ hpc = "idle"
    /\ streams_mutex_ = NoThread
    /\ write_queue_closed_' = [write_queue_closed_ EXCEPT ![h] = TRUE]
    /\ UNCHANGED <<clientVars, hostVars,
                   obj, stream_type_, initial_request_bytes_, active_, writes_done_,
                   write_queue_, threadVars, callVars, histVars>>
    /\ UNCHANGED facadeVars

\* stream_close_send: lock, find, GrpcStream::close_send(): the queue of a
\* client-streaming or bidirectional engine is marked closed.
StreamCloseSend(h) ==
    /\ ~crashed
    /\ hpc = "idle"
    /\ streams_mutex_ = NoThread
    /\ write_queue_closed_' =
          [write_queue_closed_ EXCEPT ![h] =
              IF h \in active_streams_ /\ stream_type_[h] /= "SERVER_STREAMING"
              THEN TRUE ELSE @]
    /\ UNCHANGED <<clientVars, hostVars,
                   obj, stream_type_, initial_request_bytes_, active_, writes_done_,
                   write_queue_, threadVars, callVars, histVars>>
    /\ UNCHANGED facadeVars

\* stream_cancel and server_stream_cancel (the same body) on a handle that
\* is not in the map: a warning, nothing else.
StreamCancelUnknown(h) ==
    /\ ~crashed
    /\ hpc = "idle"
    /\ streams_mutex_ = NoThread
    /\ h \notin active_streams_
    /\ UNCHANGED vars
    /\ UNCHANGED facadeVars

\* stream_cancel / server_stream_cancel on a registered handle: under
\* streams_mutex_, cancel() and then erase(it), which runs ~GrpcStream on
\* the host thread with the mutex still held: cancel() again, the queue is
\* closed, and the destructor goes on to join the threads.
StreamCancel(h, entry) ==
    /\ ~crashed
    /\ hpc = "idle"
    /\ streams_mutex_ = NoThread
    /\ h \in active_streams_
    /\ streams_mutex_' = HostThread
    /\ cancelCalled' = [cancelCalled EXCEPT ![h] = @ \/ active_[h]]
    /\ call' = [call EXCEPT ![h] = CancelledCall(h)]
    /\ active_' = [active_ EXCEPT ![h] = FALSE]
    /\ active_streams_' = active_streams_ \ {h}
    /\ write_queue_closed_' = [write_queue_closed_ EXCEPT ![h] = TRUE]
    /\ obj' = [obj EXCEPT ![h] = "dying"]
    /\ hpc' = "dtor_join_writer"
    /\ hcur' = h
    /\ hop' = entry
    /\ UNCHANGED <<channel_, stub_, next_stream_id_, deferred, doomed, hmsg, hlate,
                   lastRet, crashed,
                   stream_type_, initial_request_bytes_, writes_done_, write_queue_,
                   threadVars, finalStatus, ops,
                   accepted, written, wdone, produced, delivered, fired>>
    /\ UNCHANGED facadeVars

\* GrpcChannelPool::close() that forgets the stub.
ChannelPoolCloseKeepingStub ==
    /\ stub_' = stub_
    /\ channel_' = FALSE

\* GrpcChannelPool::close(): stub_.reset(), channel_.reset().
ChannelPoolClose ==
    /\ stub_' = FALSE
    /\ channel_' = FALSE

\* GrpcClient::close(): under streams_mutex_, cancel() on every registered
\* engine, then active_streams_.clear(), which destroys the engines one
\* after the other (in an order the map chooses) with the mutex held.  With
\* no engine registered the mutex is released and the channel pool closed.
Close ==
    /\ ~crashed
    /\ hpc = "idle"
    /\ streams_mutex_ = NoThread
    /\ cancelCalled' = [h \in Handles |->
                          cancelCalled[h] \/ (h \in active_streams_ /\ active_[h])]
    /\ call' = [h \in Handles |->
                  IF h \in active_streams_ THEN CancelledCall(h) ELSE call[h]]
    /\ active_' = [h \in Handles |-> IF h \in active_streams_ THEN FALSE ELSE active_[h]]
    /\ active_streams_' = {}
    /\ IF active_streams_ = {}
       THEN /\ ChannelPoolClose
            /\ UNCHANGED <<streams_mutex_, hpc, hcur, hop, doomed, obj,
                           write_queue_closed_>>
       ELSE /\ streams_mutex_' = HostThread
            /\ hop' = "close"
            /\ \E d \in active_streams_ :
                  /\ hcur' = d
                  /\ doomed' = active_streams_ \ {d}
                  /\ write_queue_closed_' = [write_queue_closed_ EXCEPT ![d] = TRUE]
                  /\ obj' = [obj EXCEPT ![d] = "dying"]
            /\ hpc' = "dtor_join_writer"
            /\ UNCHANGED <<channel_, stub_>>
    /\ UNCHANGED <<next_stream_id_, deferred, hmsg, hlate, lastRet, crashed,
                   stream_type_, initial_request_bytes_, writes_done_, write_queue_,
                   threadVars, finalStatus, ops,
                   accepted, written, wdone, produced, delivered, fired>>
    /\ UNCHANGED facadeVars

\* ~GrpcStream that goes on to the reader without joining the writer.
DtorSkipJoinWriter ==
    /\ ~crashed
    /\ hpc = "dtor_join_writer"
    /\ hpc' = "dtor_join_reader"
    /\ UNCHANGED <<clientVars, hcur, hop, doomed, hmsg, hlate, lastRet, crashed,
                   engineVars, threadVars, callVars, histVars>>
    /\ UNCHANGED facadeVars

\* ~GrpcStream on the host thread: writer_thread_->join() returns once the
\* writer thread has exited (or was never spawned).
DtorJoinWriter ==
    /\ ~crashed
    /\ hpc = "dtor_join_writer"
    /\ wthr[hcur] \in {"none", "done"}
    /\ hpc' = "dtor_join_reader"
    /\ UNCHANGED <<clientVars, hcur, hop, doomed, hmsg, hlate, lastRet, crashed,
                   engineVars, threadVars, callVars, histVars>>
    /\ UNCHANGED facadeVars

\* ~GrpcStream on the host thread: reader_thread_->join() returns once the
\* reader thread has exited; cq_->Shutdown(); the engine is freed.  clear()
\* goes on with the next engine; after the last one streams_mutex_ is
\* released and, in close(), the channel pool is closed.
DtorJoinReader ==
    /\ ~crashed
    /\ hpc = "dtor_join_reader"
    /\ rthr[hcur] \in {"none", "done"}
    /\ cq_shutdown' = [cq_shutdown EXCEPT ![hcur] = TRUE]
    /\ IF doomed = {}
       THEN /\ obj' = [obj EXCEPT ![hcur] = "freed"]
            /\ streams_mutex_' = NoThread
            /\ IF hop = "close" THEN ChannelPoolClose ELSE UNCHANGED <<channel_, stub_>>
            /\ hpc' = "idle"
            /\ hcur' = 0
            /\ hop' = "none"
            /\ UNCHANGED <<doomed, write_queue_closed_>>
       ELSE /\ \E d \in doomed :
                  /\ hcur' = d
                  /\ doomed' = doomed \ {d}
                  /\ write_queue_closed_' = [write_queue_closed_ EXCEPT ![d] = TRUE]
                  /\ obj' = [obj EXCEPT ![hcur] = "freed", ![d] = "dying"]
            /\ hpc' = "dtor_join_writer"
            /\ UNCHANGED <<channel_, stub_, streams_mutex_, hop>>
    /\ UNCHANGED <<next_stream_id_, active_streams_, deferred, hmsg, hlate, lastRet,
                   crashed,
                   stream_type_, initial_request_bytes_, active_, writes_done_,
                   write_queue_, rthr, wthr, response_buffer, status, cq_,
                   callVars, histVars>>
    /\ UNCHANGED facadeVars

(* -------------------------- the reader thread -------------------------- *)

\* After the loop: grpc::Status status; stream_->Finish(&status, tag).
ReaderIssueFinish(h) ==
    /\ ops' = [ops EXCEPT ![h]["Finish"] = @ + 1]
    /\ status' = [status EXCEPT ![h] = "OK"]
    /\ rthr' = [rthr EXCEPT ![h] = "finish_wait"]
    /\ response_buffer' = [response_buffer EXCEPT ![h] = << >>]

\* while (active_.load()): an active engine issues the next Read into a
\* fresh buffer; an inactive one leaves the loop and issues Finish.
ReaderLoopHead(h) ==
    IF active_[h]
    THEN /\ ops' = [ops EXCEPT ![h]["Read"] = @ + 1]
         /\ response_buffer' = [response_buffer EXCEPT ![h] = << >>]
         /\ rthr' = [rthr EXCEPT ![h] = "read_wait"]
         /\ UNCHANGED status
    ELSE ReaderIssueFinish(h)

\* The reader thread begins with the loop's first test.
ReaderLoop(h) ==
    /\ ~crashed
    /\ rthr[h] = "loop"
    /\ ReaderLoopHead(h)
    /\ UNCHANGED <<clientVars, hostVars, engineVars, wthr, cq_, cq_shutdown,
                   call, finalStatus, histVars>>
    /\ UNCHANGED facadeVars

\* cq_->Next after Read: whatever event is next on the queue is taken for the
\* Read's.  Not ok: leave the loop and issue Finish.  Ok: the buffer's slices
\* are concatenated and passed to on_message_, that is on_stream_message,
\* which defers the "message" signal; then the loop's test follows.
ReaderReadNext(h) ==
    /\ ~crashed
    /\ rthr[h] = "read_wait"
    /\ cq_[h] /= << >>
    /\ cq_' = [cq_ EXCEPT ![h] = Tail(@)]
    /\ IF ~Head(cq_[h]).ok
       THEN /\ ReaderIssueFinish(h)
            /\ UNCHANGED <<delivered, deferred>>
       ELSE /\ delivered' = [delivered EXCEPT ![h] =
                               Append(@, ConcatSlices(response_buffer[h]))]
            /\ deferred' = Append(deferred, [sig |-> "message", id |-> h,
                                             arg |-> ConcatSlices(response_buffer[h])])
            /\ ReaderLoopHead(h)
    /\ UNCHANGED <<channel_, stub_, next_stream_id_, active_streams_, streams_mutex_,
                   hostVars, engineVars, wthr, cq_shutdown,
                   call, finalStatus, accepted, written, wdone, produced, fired,
                   cancelCalled>>
    /\ UNCHANGED facadeVars

\* cq_->Next after Finish, then the terminal callback is invoked: on_finished_
\* when status.ok(), on_error_ otherwise, each with status.error_code().
ReaderFinishNext(h) ==
    /\ ~crashed
    /\ rthr[h] = "finish_wait"
    /\ cq_[h] /= << >>
    /\ cq_' = [cq_ EXCEPT ![h] = Tail(@)]
    /\ fired' = [fired EXCEPT ![h] =
                   Append(@, [cb |-> IF status[h] = "OK" THEN "finished" ELSE "error",
                              code |-> status[h]])]
    /\ rthr' = [rthr EXCEPT ![h] = "cb_lock"]
    /\ UNCHANGED <<clientVars, hostVars, engineVars, wthr, response_buffer, status,
                   cq_shutdown, callVars, accepted, written, wdone, produced,
                   delivered, cancelCalled>>
    /\ UNCHANGED facadeVars

\* An on_stream_finished / on_stream_error that schedules an empty "message"
\* after the terminal notification.
ReaderCallbackThenMessage(h) ==
    /\ ~crashed
    /\ rthr[h] = "cb_lock"
    /\ streams_mutex_ = NoThread
    /\ h \notin active_streams_
    /\ deferred' = deferred \o << Notification(h),
                                  [sig |-> "message", id |-> h, arg |-> << >>] >>
    /\ rthr' = [rthr EXCEPT ![h] = "clear"]
    /\ UNCHANGED <<channel_, stub_, next_stream_id_, active_streams_, streams_mutex_,
                   hostVars, engineVars, wthr, response_buffer, status, cq_,
                   cq_shutdown, callVars, histVars>>
    /\ UNCHANGED facadeVars

\* on_stream_finished / on_stream_error on the reader thread: lock
\* streams_mutex_ and erase(stream_id).  A handle that is not in the map: the
\* erase does nothing, the mutex is released and the signal is deferred.
ReaderCallbackUnregistered(h) ==
    /\ ~crashed
    /\ rthr[h] = "cb_lock"
    /\ streams_mutex_ = NoThread
    /\ h \notin active_streams_
    /\ deferred' = Append(deferred, Notification(h))
    /\ rthr' = [rthr EXCEPT ![h] = "clear"]
    /\ UNCHANGED <<channel_, stub_, next_stream_id_, active_streams_, streams_mutex_,
                   hostVars, engineVars, wthr, response_buffer, status, cq_,
                   cq_shutdown, callVars, histVars>>
    /\ UNCHANGED facadeVars

\* on_stream_finished / on_stream_error on the reader thread, the handle in
\* the map: erase destroys the unique_ptr's engine, so ~GrpcStream runs on
\* the reader thread with streams_mutex_ held: cancel() (active_ is still
\* true here), the queue is closed, and the destructor goes on to join.
ReaderCallbackErase(h) ==
    /\ ~crashed
    /\ rthr[h] = "cb_lock"
    /\ streams_mutex_ = NoThread
    /\ h \in active_streams_
    /\ streams_mutex_' = Reader(h)
    /\ active_streams_' = active_streams_ \ {h}
    /\ cancelCalled' = [cancelCalled EXCEPT ![h] = @ \/ active_[h]]
    /\ call' = [call EXCEPT ![h] = CancelledCall(h)]
    /\ active_' = [active_ EXCEPT ![h] = FALSE]
    /\ write_queue_closed_' = [write_queue_closed_ EXCEPT ![h] = TRUE]
    /\ obj' = [obj EXCEPT ![h] = "dying"]
    /\ rthr' = [rthr EXCEPT ![h] = "dtor_join_writer"]
    /\ UNCHANGED <<channel_, stub_, next_stream_id_, deferred, hostVars,
                   stream_type_, initial_request_bytes_, writes_done_, write_queue_,
                   wthr, response_buffer, status, cq_, cq_shutdown, finalStatus, ops,
                   accepted, written, wdone, produced, delivered, fired>>
    /\ UNCHANGED facadeVars

\* ~GrpcStream on the reader thread: after the writer has been joined,
\* reader_thread_->join() is a join of the calling thread: std::thread::join
\* throws resource_deadlock_would_occur, and an exception leaving a
\* destructor calls std::terminate.
ReaderDtorSelfJoin(h) ==
    /\ ~crashed
    /\ rthr[h] = "dtor_join_writer"
    /\ wthr[h] \in {"none", "done"}
    /\ crashed' = TRUE
    /\ UNCHANGED <<clientVars, hpc, hcur, hop, hmsg, doomed, hlate, lastRet,
                   engineVars, threadVars, callVars, histVars>>
    /\ UNCHANGED facadeVars

\* The reader's last step: active_.store(false).
ReaderClear(h) ==
    /\ ~crashed
    /\ rthr[h] = "clear"
    /\ active_' = [active_ EXCEPT ![h] = FALSE]
    /\ rthr' = [rthr EXCEPT ![h] = "done"]
    /\ UNCHANGED <<clientVars, hostVars, obj, stream_type_, initial_request_bytes_,
                   writes_done_, write_queue_closed_, write_queue_,
                   wthr, response_buffer, status, cq_, cq_shutdown, callVars, histVars>>
    /\ UNCHANGED facadeVars

(* -------------------------- the writer thread -------------------------- *)

\* while (active_.load()): an inactive engine ends the loop, and the
\* WritesDone step, which needs active_ too, is skipped.
WriterLoop(h) ==
    /\ ~crashed
    /\ wthr[h] = "loop"
    /\ wthr' = [wthr EXCEPT ![h] = IF active_[h] THEN "wait" ELSE "done"]
    /\ UNCHANGED <<clientVars, hostVars, engineVars, rthr, response_buffer, status,
                   cq_, cq_shutdown, callVars, histVars>>
    /\ UNCHANGED facadeVars

\* After the loop: if (active_.load() && !writes_done_.exchange(true))
\* WritesDone is issued.
WritesDoneNeeded(h) == active_[h] /\ ~writes_done_[h]

\* write_queue_cv_.wait returns with a message queued or the queue closed.
\* A message: it is dequeued and written.  Closed and empty: the loop ends.
WriterWait(h) ==
    /\ ~crashed
    /\ wthr[h] = "wait"
    /\ write_queue_[h] /= << >> \/ write_queue_closed_[h]
    /\ IF write_queue_[h] /= << >>
       THEN /\ write_queue_' = [write_queue_ EXCEPT ![h] = Pop(@)]
            /\ written' = [written EXCEPT ![h] = Append(@, ToByteBuffer(Front(write_queue_[h])))]
            /\ ops' = [ops EXCEPT ![h]["Write"] = @ + 1]
            /\ wthr' = [wthr EXCEPT ![h] = "write_wait"]
            /\ UNCHANGED <<writes_done_, wdone>>
       ELSE /\ writes_done_' = [writes_done_ EXCEPT ![h] = @ \/ active_[h]]
            /\ ops' = [ops EXCEPT ![h]["WritesDone"] = IF WritesDoneNeeded(h) THEN @ + 1 ELSE @]
            /\ wdone' = [wdone EXCEPT ![h] = IF WritesDoneNeeded(h) THEN @ + 1 ELSE @]
            /\ wthr' = [wthr EXCEPT ![h] = IF WritesDoneNeeded(h) THEN "wd_wait" ELSE "done"]
            /\ UNCHANGED <<write_queue_, written>>
    /\ UNCHANGED <<clientVars, hostVars, obj, stream_type_, initial_request_bytes_,
                   active_, write_queue_closed_, rthr, response_buffer, status,
                   cq_, cq_shutdown, call, finalStatus,
                   accepted, produced, delivered, fired, cancelCalled>>
    /\ UNCHANGED facadeVars

\* cq_->Next after Write: whatever event is next on the queue is taken for
\* the Write's.  Ok: back to the loop's test.  Not ok: the loop ends without a
\* callback, and WritesDone follows if the engine is active.
WriterWriteNext(h) ==
    /\ ~crashed
    /\ wthr[h] = "write_wait"
    /\ cq_[h] /= << >>
    /\ cq_' = [cq_ EXCEPT ![h] = Tail(@)]
    /\ IF Head(cq_[h]).ok
       THEN /\ wthr' = [wthr EXCEPT ![h] = IF active_[h] THEN "wait" ELSE "done"]
            /\ UNCHANGED <<writes_done_, ops, wdone>>
       ELSE /\ writes_done_' = [writes_done_ EXCEPT ![h] = @ \/ active_[h]]
            /\ ops' = [ops EXCEPT ![h]["WritesDone"] = IF WritesDoneNeeded(h) THEN @ + 1 ELSE @]
            /\ wdone' = [wdone EXCEPT ![h] = IF WritesDoneNeeded(h) THEN @ + 1 ELSE @]
            /\ wthr' = [wthr EXCEPT ![h] = IF WritesDoneNeeded(h) THEN "wd_wait" ELSE "done"]
    /\ UNCHANGED <<clientVars, hostVars, obj, stream_type_, initial_request_bytes_,
                   active_, write_queue_closed_, write_queue_, rthr, response_buffer,
                   status, cq_shutdown, call, finalStatus,
                   accepted, written, produced, delivered, fired, cancelCalled>>
    /\ UNCHANGED facadeVars

\* cq_->Next after WritesDone; the writer thread ends.
WriterWritesDoneNext(h) ==
    /\ ~crashed
    /\ wthr[h] = "wd_wait"
    /\ cq_[h] /= << >>
    /\ cq_' = [cq_ EXCEPT ![h] = Tail(@)]
    /\ wthr' = [wthr EXCEPT ![h] = "done"]
    /\ UNCHANGED <<clientVars, hostVars, engineVars, rthr, response_buffer, status,
                   cq_shutdown, callVars, histVars>>
    /\ UNCHANGED facadeVars

(* --------------------------- specification ----------------------------- *)

HostStep ==
    \/ Connect
    \/ StartStreamNotConnected
    \/ \E t \in StreamTypes, req \in Requests : StartStream(t, req)
    \/ StartCallNext
    \/ StartWriteNext
    \/ StartFinishNext
    \/ StartWritesDoneNext
    \/ StartErrorCallback
    \/ StartRegister
    \/ \E h \in Handles, m \in Payloads : StreamSendBegin(h, m)
    \/ StreamSendPush
    \/ \E h \in Handles : StreamCloseSend(h)
    \/ \E h \in Handles : StreamCancelUnknown(h)
    \/ \E h \in Handles, entry \in {"stream_cancel", "server_stream_cancel"} :
          StreamCancel(h, entry)
    \/ Close
    \/ DtorJoinWriter
    \/ DtorJoinReader

ReaderStep(h) ==
    \/ ReaderLoop(h)
    \/ ReaderReadNext(h)
    \/ ReaderFinishNext(h)
    \/ ReaderCallbackUnregistered(h)
    \/ ReaderCallbackErase(h)
    \/ ReaderDtorSelfJoin(h)
    \/ ReaderClear(h)

WriterStep(h) ==
    \/ WriterLoop(h)
    \/ WriterWait(h)
    \/ WriterWriteNext(h)
    \/ WriterWritesDoneNext(h)

TransportStep(h) ==
    \/ ServerEnd(h)
    \/ CompleteSend(h)
    \/ CompleteReadOk(h)
    \/ CompleteReadFail(h)
    \/ CompleteFinish(h)

Next ==
    \/ HostStep
    \/ \E h \in Handles : ReaderStep(h) \/ WriterStep(h) \/ TransportStep(h)

Spec == Init /\ [][Next]_vars

\* Scheduling: a thread that can take a step is eventually run, the transport
\* completes every operation issued on a call that is over, and a join whose
\* thread has exited returns.  Nothing obliges the host to call the facade
\* or the server to answer.
Fairness ==
    /\ \A h \in Handles : WF_vars(ReaderStep(h))
    /\ \A h \in Handles : WF_vars(WriterStep(h))
    /\ \A h \in Handles : WF_vars(CompleteSend(h) \/ CompleteReadFail(h) \/ CompleteFinish(h))
    /\ WF_vars(DtorJoinWriter \/ DtorJoinReader)

FairSpec == Spec /\ Fairness

(* ----------------------------- properties ------------------------------ *)

CancelEntries == {"stream_cancel", "server_stream_cancel"}

\* The last terminal callback invoked for a handle.
LastFired(h) == fired[h][Len(fired[h])]

\* The sends accepted on a stream, as the buffers Write is to be given.
AcceptedBuffers(h) == [i \in 1..Len(accepted[h]) |-> ToByteBuffer(accepted[h][i])]
QueuedBuffers(h) == [i \in 1..Len(write_queue_[h]) |-> ToByteBuffer(write_queue_[h][i])]

\* C1: on a client-streaming or bidirectional stream the buffers handed to
\* Write, followed by the messages still queued, are the accepted sends in
\* the order they were accepted: the transport sees the writes in acceptance
\* order, none twice, none skipped.
C1_WritesInAcceptanceOrder ==
    \A h \in Handles :
        stream_type_[h] /= "SERVER_STREAMING"
            => written[h] \o QueuedBuffers(h) = AcceptedBuffers(h)

\* Two sends were accepted on a stream and both have been written.
C1_Witness ==
    \E h \in Handles :
        /\ stream_type_[h] /= "SERVER_STREAMING"
        /\ Len(accepted[h]) = 2
        /\ Len(written[h]) = 2

\* C2: the payloads passed to on_message are a prefix of the messages the
\* transport produced for the call, in the same order.
C2_DeliveredPrefixOfProduced ==
    \A h \in Handles : IsPrefix(delivered[h], produced[h])

\* C3: stream_cancel / server_stream_cancel on a registered stream whose
\* reader thread is running returns, and the handle is then absent from the
\* registry.
C3_CancelReturns ==
    \A h \in Handles :
        (hop \in CancelEntries /\ hcur = h /\ rthr[h] \notin {"none", "done"})
            ~> (hpc = "idle" /\ h \notin active_streams_)

\* C4, as stated: after cancel() on an active stream a terminal callback
\* eventually fires, and it is on_finished or on_error with the cancellation
\* status.
C4_CancelledOrFinishedFires ==
    \A h \in Handles :
        cancelCalled[h] ~>
            (fired[h] /= << >> /\
             (LastFired(h).cb = "finished" \/ LastFired(h).code = "CANCELLED"))

\* C4, amended: after cancel() on an active stream a terminal callback
\* eventually fires, and it carries the status Finish reported: the
\* cancellation status when the call was still open at the cancel, the
\* call's own final status when it had already ended (or the default OK
\* status).
C4_TerminalCallbackFires ==
    \A h \in Handles :
        cancelCalled[h] ~>
            (fired[h] /= << >> /\ LastFired(h).code \in {"OK", CallStatus(h)})

\* cancel() found the stream active with its call open, and on_error has
\* fired with the cancellation status.
C4_Witness ==
    \E h \in Handles :
        /\ cancelCalled[h]
        /\ call[h] = "cancelled"
        /\ fired[h] /= << >>
        /\ LastFired(h) = [cb |-> "error", code |-> "CANCELLED"]

\* The host thread is destroying the engine (stream_cancel,
\* server_stream_cancel or close()).
HostDestroys(h) == obj[h] = "dying" /\ streams_mutex_ = HostThread

\* C5: a registered stream whose call ended on its own eventually has
\* exactly one terminal notification deferred, "finished" when the final
\* status is OK and "error" otherwise, unless the host cancels the stream
\* or closes the client first.
C5_OneTerminalNotification ==
    \A h \in Handles :
        (h \in active_streams_ /\ call[h] = "ended" /\ rthr[h] \notin {"none", "done"})
            ~> \/ TerminalNotifications(h) =
                     << [sig |-> IF finalStatus[h] = "OK" THEN "finished" ELSE "error",
                         id |-> h, arg |-> finalStatus[h]] >>
               \/ HostDestroys(h)

\* C6: a stream_send that begins after the handle's terminal callback has
\* returned gives false and queues nothing.
C6_SendAfterTerminalRejected ==
    [][(hpc = "send_push" /\ hlate)
          => (lastRet' = Returned("stream_send", hcur, 0) /\ accepted' = accepted)]_vars

\* C7: on_message is not invoked for an engine whose active flag is
\* cleared.
C7_NoMessageWhenInactive ==
    [][\A h \in Handles : delivered'[h] /= delivered[h] => active_[h]]_vars

\* C8: no send is accepted, and nothing is appended to the outgoing queue,
\* on an engine whose active flag is cleared.
C8_NoSendWhenInactive ==
    [][\A h \in Handles :
          (accepted'[h] /= accepted[h] \/ Len(write_queue_'[h]) > Len(write_queue_[h]))
              => active_[h]]_vars

\* C9: close() with streams registered and running returns, and then the
\* registry is empty and the channel and the stub are released.
C9_CloseReturns ==
    (hop = "close" /\ \E h \in Handles : obj[h] = "dying" /\ rthr[h] \notin {"none", "done"})
        ~> (hpc = "idle" /\ active_streams_ = {} /\ ~channel_ /\ ~stub_)

\* C10: no thread that holds streams_mutex_ waits in a join for a worker
\* thread that is still running; in particular none waits for a reader that
\* itself waits for streams_mutex_.
C10_NoJoinUnderRegistryMutex ==
    /\ (streams_mutex_ = HostThread /\ hpc = "dtor_join_writer")
           => wthr[hcur] \in {"none", "done"}
    /\ (streams_mutex_ = HostThread /\ hpc = "dtor_join_reader")
           => rthr[hcur] \in {"none", "done"}
    /\ \A h \in Handles :
           (streams_mutex_ = Reader(h) /\ rthr[h] = "dtor_join_writer")
               => wthr[h] \in {"none", "done"}

\* C11: the destruction of an engine whose worker threads are running comes
\* to its end, with the engine freed and both worker threads exited.
C11_DestructionReturns ==
    \A h \in Handles :
        (obj[h] = "dying" /\ (rthr[h] \notin {"none", "done"} \/ wthr[h] \notin {"none", "done"}))
            ~> (obj[h] = "freed" /\ rthr[h] \in {"none", "done"} /\ wthr[h] \in {"none", "done"})

\* The program together with callers that invoke GrpcStream::start() on an
\* engine a second time.
RestartNext == Next \/ \E h \in Handles : StartAgain(h)

RestartSpec == Init /\ [][RestartNext]_vars

\* C12: once an engine has been started, a later start() has no effect: the
\* active flag is not set again, no call is prepared again and no terminal
\* callback is invoked by it.
C12_StartOnce ==
    [][\A h \in Handles :
          obj[h] /= "none"
              => /\ active_'[h] => active_[h]
                 /\ call'[h] = "open" => call[h] = "open"]_vars

\* C13: when the reader thread of a server-streaming engine has issued a
\* Read, the single request has been written, WritesDone has been issued
\* and writes_done_ is set.
C13_RequestWrittenBeforeFirstRead ==
    \A h \in Handles :
        (stream_type_[h] = "SERVER_STREAMING" /\ rthr[h] = "read_wait")
            => (Len(written[h]) = 1 /\ wdone[h] = 1 /\ writes_done_[h])

\* C14, as stated: on a client-streaming or bidirectional stream WritesDone
\* is issued at most once, it is issued only when every accepted message has
\* been written (the outgoing queue is empty), and no Write is issued after
\* it.
C14_WritesDoneOnceAfterAllWrites ==
    [][\A h \in Handles :
          stream_type_[h] /= "SERVER_STREAMING"
              => /\ wdone'[h] <= 1
                 /\ wdone'[h] > wdone[h] => write_queue_[h] = << >>
                 /\ wdone[h] >= 1 => written'[h] = written[h]]_vars

\* A stream_send on handle h returns with this step.
SendReturns(h) ==
    \/ hpc = "send_push" /\ hcur = h /\ hpc' = "idle"
    \/ lastRet' /= lastRet /\ lastRet'.op = "stream_send" /\ lastRet'.id = h

\* C15: once the outgoing queue of a client-streaming or bidirectional
\* engine has been closed (close_send() has returned), every send() on it
\* returns false and the queue gets no new message, whether or not
\* WritesDone has been issued.
C15_SendAfterCloseSendRejected ==
    [][\A h \in Handles :
          (stream_type_[h] /= "SERVER_STREAMING" /\ write_queue_closed_[h])
              => /\ accepted'[h] = accepted[h]
                 /\ Len(write_queue_'[h]) <= Len(write_queue_[h])
                 /\ SendReturns(h) => lastRet' = Returned("stream_send", h, 0)]_vars

\* A send() on an active, registered engine has passed the checks of
\* active_, the stream type and writes_done_ and finds the queue closed,
\* with WritesDone not yet issued.
C15_Witness ==
    /\ hpc = "send_push"
    /\ write_queue_closed_[hcur]
    /\ active_[hcur]
    /\ obj[hcur] = "alive"
    /\ wdone[hcur] = 0

\* C16: a send() on a server-streaming stream returns false and changes
\* nothing: it never reaches the queue, the queue stays empty, and the step
\* in which it returns leaves the engine, its threads and the call as they
\* are.
C16_SendOnServerStreamRejected ==
    [][\A h \in Handles :
          (stream_type_[h] = "SERVER_STREAMING" /\ obj[h] /= "none")
              => /\ ~(hpc' = "send_push" /\ hcur' = h)
                 /\ accepted'[h] = << >>
                 /\ write_queue_'[h] = << >>
                 /\ SendReturns(h)
                       => /\ lastRet' = Returned("stream_send", h, 0)
                          /\ UNCHANGED <<clientVars, engineVars, threadVars, callVars,
                                         histVars>>]_vars

\* A stream_send on a registered, active server-streaming stream has
\* returned false.
C16_Witness ==
    \E h \in Handles :
        /\ stream_type_[h] = "SERVER_STREAMING"
        /\ h \in active_streams_
        /\ active_[h]
        /\ lastRet = Returned("stream_send", h, 0)


\* C17: while no channel is installed, a stream start returns a value <= 0
\* and changes nothing: no handle is allocated, no engine is constructed and
\* the registry keeps its entries.
C17_StartWithoutChannelRefused ==
    [][~channel_
          => /\ next_stream_id_' = next_stream_id_
             /\ \A h \in Handles : obj[h] = "none" => obj'[h] = "none"
             /\ active_streams_' \subseteq active_streams_
             /\ (lastRet' /= lastRet /\ lastRet'.op = "start_stream")
                   => /\ lastRet'.ret <= 0
                      /\ UNCHANGED <<engineVars, threadVars, callVars>>]_vars


(* ------------- handle allocation when starts run concurrently ---------- *)

\* int next_stream_id_: the largest and the smallest value an int holds.
IntMax == 2147483647
IntMin == (-IntMax) - 1

\* Stream starts followed in the handle allocation model.
MaxStarts == 3

\* start_stream entered by a caller with a stub installed: the stub is read,
\* the context created; the handle is allocated next.
StartStreamEnter(c) ==
    /\ ~crashed
    /\ spc[c] = "idle"
    /\ stub_
    /\ Len(handed) + Cardinality({d \in Callers : spc[d] /= "idle"}) < MaxStarts
    /\ spc' = [spc EXCEPT ![c] = "allocate"]
    /\ UNCHANGED <<clientVars, hostVars, engineVars, threadVars, callVars, histVars,
                   stream_id, handed, unaryVars, utilVars>>

\* stream_id = next_stream_id_++ under streams_mutex_.  Incrementing an int
\* that holds IntMax is undefined: the build either wraps to IntMin or traps.
AllocateStreamId(c) ==
    /\ ~crashed
    /\ spc[c] = "allocate"
    /\ streams_mutex_ = NoThread
    /\ stream_id' = [stream_id EXCEPT ![c] = next_stream_id_]
    /\ spc' = [spc EXCEPT ![c] = "register"]
    /\ IF next_stream_id_ < IntMax
       THEN /\ next_stream_id_' = next_stream_id_ + 1
            /\ UNCHANGED crashed
       ELSE \E trapped \in BOOLEAN :
               IF trapped
               THEN /\ crashed' = TRUE
                    /\ UNCHANGED next_stream_id_
               ELSE /\ next_stream_id_' = IntMin
                    /\ UNCHANGED crashed
    /\ UNCHANGED <<channel_, stub_, active_streams_, streams_mutex_, deferred,
                   hpc, hcur, hop, hmsg, doomed, hlate, lastRet,
                   engineVars, threadVars, callVars, histVars, handed, unaryVars,
                   utilVars>>

\* The rest of start_stream: the engine is constructed and started, then
\* active_streams_[stream_id] is set under streams_mutex_ and stream_id is
\* returned.
RegisterStream(c) ==
    /\ ~crashed
    /\ spc[c] = "register"
    /\ streams_mutex_ = NoThread
    /\ active_streams_' = active_streams_ \cup {stream_id[c]}
    /\ handed' = Append(handed, stream_id[c])
    /\ spc' = [spc EXCEPT ![c] = "idle"]
    /\ UNCHANGED <<channel_, stub_, next_stream_id_, streams_mutex_, deferred,
                   hostVars, engineVars, threadVars, callVars, histVars,
                   stream_id, unaryVars, utilVars>>

\* active_streams_.erase(stream_id), by stream_cancel or by a terminal callback.
EraseStream(id) ==
    /\ ~crashed
    /\ id \in active_streams_
    /\ streams_mutex_ = NoThread
    /\ active_streams_' = active_streams_ \ {id}
    /\ UNCHANGED <<channel_, stub_, next_stream_id_, streams_mutex_, deferred,
                   hostVars, engineVars, threadVars, callVars, histVars, facadeVars>>

\* GrpcClient::close() seen from the registry: active_streams_.clear(), then
\* channel_pool_.close().
CloseRegistry ==
    /\ ~crashed
    /\ streams_mutex_ = NoThread
    /\ active_streams_' = {}
    /\ ChannelPoolClose
    /\ UNCHANGED <<next_stream_id_, streams_mutex_, deferred,
                   hostVars, engineVars, threadVars, callVars, histVars, facadeVars>>

\* A facade that has allocated no handle yet, or all but the last two an int
\* can count.
HandleInit == \E first_id \in {1, IntMax - 1} : InitFrom(first_id)

HandleNext ==
    \/ Connect
    \/ StartStreamNotConnected
    \/ CloseRegistry
    \/ \E c \in Callers : StartStreamEnter(c) \/ AllocateStreamId(c) \/ RegisterStream(c)
    \/ \E id \in active_streams_ : EraseStream(id)

HandleSpec == HandleInit /\ [][HandleNext]_vars

\* C18: every handle a successful stream start returns is positive and
\* strictly greater than every handle the facade returned before it.
C18_HandlesStrictlyIncreasing ==
    \A i \in 1..Len(handed) :
        /\ handed[i] > 0
        /\ \A j \in 1..(i - 1) : handed[j] < handed[i]


(* ---------------------------- GrpcClient::unary ------------------------ *)

\* Response buffers (lists of slices) a server answers a unary call with.
UnaryResponses == {<< >>, << <<1>> >>, << <<1>>, <<2, 3>> >>, << <<3, 2>>, << >>, <<1>> >>}

\* What unary returns once cq.Next has reported the completion: nothing
\* unless the completion succeeded and the status is OK, else the slices of
\* the response appended in order.
UnaryResultIgnoringStatus(ok, st, buffer) ==
    IF ~ok THEN << >> ELSE ConcatSlices(buffer)

UnaryResult(ok, st, buffer) ==
    IF ~ok \/ st /= "OK" THEN << >> ELSE ConcatSlices(buffer)

\* unary without a stub: an empty PackedByteArray, at once.
UnaryNotConnected ==
    /\ ~crashed
    /\ hpc = "idle"
    /\ ~stub_
    /\ u_request_buffer' = << >>
    /\ u_response_buffer' = << >>
    /\ u_status' = "OK"
    /\ u_ok' = FALSE
    /\ u_ops' = 0
    /\ u_ret' = << << >> >>
    /\ UNCHANGED <<clientVars, hostVars, engineVars, threadVars, callVars, histVars,
                   startVars, utilVars>>

\* unary with a stub: the request becomes a ByteBuffer, PrepareUnaryCall,
\* StartCall and Finish are issued on a local completion queue and the host
\* thread blocks in cq.Next.
UnaryStart(req) ==
    /\ ~crashed
    /\ hpc = "idle"
    /\ stub_
    /\ u_request_buffer' = ToByteBuffer(req)
    /\ u_response_buffer' = << >>
    /\ u_status' = "OK"
    /\ u_ok' = FALSE
    /\ u_ops' = 2
    /\ u_ret' = << >>
    /\ hpc' = "unary_next"
    /\ hop' = "unary"
    /\ UNCHANGED <<clientVars, hcur, hmsg, doomed, hlate, lastRet, crashed,
                   engineVars, threadVars, callVars, histVars, startVars,
                   utilVars>>

\* cq.Next returns the event of the Finish: the transport has set ok, the
\* status and the response buffer; unary returns.
UnaryCqNext ==
    /\ ~crashed
    /\ hpc = "unary_next"
    /\ \E ok \in BOOLEAN, st \in ServerStatuses, buffer \in UnaryResponses :
          /\ u_ok' = ok
          /\ u_status' = st
          /\ u_response_buffer' = buffer
          /\ u_ret' = << UnaryResult(ok, st, buffer) >>
    /\ hpc' = "idle"
    /\ hop' = "none"
    /\ UNCHANGED <<clientVars, hcur, hmsg, doomed, hlate, lastRet, crashed,
                   engineVars, threadVars, callVars, histVars, startVars,
                   utilVars, u_request_buffer, u_ops>>

UnaryStep ==
    \/ Connect
    \/ Close
    \/ UnaryNotConnected
    \/ \E req \in Requests : UnaryStart(req)
    \/ UnaryCqNext

UnarySpec == Init /\ [][UnaryStep]_vars

\* C19: unary called while no channel is installed returns the empty byte
\* sequence at once: it issues no transport operation and never waits in
\* cq.Next.
C19_UnaryWithoutChannelReturnsEmpty ==
    [][~channel_
          => /\ hpc' /= "unary_next"
             /\ u_ret' /= u_ret => (u_ret' = << << >> >> /\ u_ops' = 0)]_vars


\* The length of the first n slices together.
RECURSIVE SizeOfSlices(_, _)
SizeOfSlices(slices, n) ==
    IF n = 0 THEN 0 ELSE SizeOfSlices(slices, n - 1) + Len(slices[n])

\* bytes is the slices one after the other: every byte of every slice sits
\* behind the bytes of the slices before it, and there is nothing else.
IsConcatenation(bytes, slices) ==
    /\ Len(bytes) = SizeOfSlices(slices, Len(slices))
    /\ \A j \in 1..Len(slices) : \A k \in 1..Len(slices[j]) :
          bytes[SizeOfSlices(slices, j - 1) + k] = slices[j][k]

\* C20: a unary call that reached the transport returns the slices of the
\* response buffer concatenated in order exactly when the completion was
\* successful and the status is OK, and the empty byte sequence otherwise.
C20_UnaryReturnsResponseOrEmpty ==
    (u_ops > 0 /\ u_ret /= << >>)
        => IF u_ok /\ u_status = "OK"
           THEN IsConcatenation(u_ret[1], u_response_buffer)
           ELSE u_ret[1] = << >>

C20_Witness ==
    /\ u_ops > 0
    /\ u_ok
    /\ u_status = "OK"
    /\ Len(u_response_buffer) = 3
    /\ u_ret = << <<3, 2, 1>> >>


(* ------------------------------ connecting ----------------------------- *)

\* GrpcChannelPool::get_stub(): the stub, if one is held.
get_stub == stub_

\* GrpcChannelPool::is_connected() can only answer true while channel_ is set
\* (and the channel is READY or IDLE).
is_connected_possible == channel_

\* C21: after a create_channel that returned false no channel is installed:
\* get_stub() is empty and is_connected() is false, whatever was installed
\* before the call.
C21_FailedCreateLeavesNothing ==
    lastRet = Returned("connect", 0, 0) => (~get_stub /\ ~is_connected_possible)


\* C22: once the terminal notification of a handle has been scheduled, the
\* handle is absent from the registry, in that state and in every later one.
C22_TerminalHandleDeregistered ==
    \A h \in Handles : TerminalNotifications(h) /= << >> => h \notin active_streams_


(* ------------------------------- StatusMap ----------------------------- *)

\* grpc::StatusCode: OK (0) through UNAUTHENTICATED (16).
StatusCodes == 0..16

\* Integers handed to the translator: the defined codes, DO_NOT_USE (-1) and
\* two values no code is defined for.
CodeInputs == (-1)..18

\* error_message and error_details of a status.
StatusMessages == {"", "boom"}
StatusDetails == {"", "more"}

Statuses == [code : CodeInputs, message : StatusMessages, details : StatusDetails]

\* StatusMap::grpc_to_godot_error with the case of UNAUTHENTICATED missing.
grpc_to_godot_error_short(code) ==
    CASE code = 0 -> "OK"
      [] code = 1 -> "ERR_QUERY_FAILED"
      [] code = 2 -> "ERR_BUG"
      [] code = 3 -> "ERR_INVALID_PARAMETER"
      [] code = 4 -> "ERR_TIMEOUT"
      [] code = 5 -> "ERR_DOES_NOT_EXIST"
      [] code = 6 -> "ERR_ALREADY_EXISTS"
      [] code = 7 -> "ERR_UNAUTHORIZED"
      [] code = 8 -> "ERR_OUT_OF_MEMORY"
      [] code = 9 -> "ERR_INVALID_DATA"
      [] code = 10 -> "ERR_BUSY"
      [] code = 11 -> "ERR_PARAMETER_RANGE_ERROR"
      [] code = 12 -> "ERR_UNAVAILABLE"
      [] code = 13 -> "ERR_BUG"
      [] code = 14 -> "ERR_CANT_CONNECT"
      [] code = 15 -> "ERR_FILE_CORRUPT"
      [] OTHER -> "FAILED"

\* StatusMap::grpc_to_godot_error: the switch over the status code.
grpc_to_godot_error(code) ==
    CASE code = 0 -> "OK"
      [] code = 1 -> "ERR_QUERY_FAILED"
      [] code = 2 -> "ERR_BUG"
      [] code = 3 -> "ERR_INVALID_PARAMETER"
      [] code = 4 -> "ERR_TIMEOUT"
      [] code = 5 -> "ERR_DOES_NOT_EXIST"
      [] code = 6 -> "ERR_ALREADY_EXISTS"
      [] code = 7 -> "ERR_UNAUTHORIZED"
      [] code = 8 -> "ERR_OUT_OF_MEMORY"
      [] code = 9 -> "ERR_INVALID_DATA"
      [] code = 10 -> "ERR_BUSY"
      [] code = 11 -> "ERR_PARAMETER_RANGE_ERROR"
      [] code = 12 -> "ERR_UNAVAILABLE"
      [] code = 13 -> "ERR_BUG"
      [] code = 14 -> "ERR_CANT_CONNECT"
      [] code = 15 -> "ERR_FILE_CORRUPT"
      [] code = 16 -> "ERR_UNAUTHORIZED"
      [] OTHER -> "FAILED"

\* StatusMap::status_code_string
status_code_string(code) ==
    CASE code = 0 -> "OK"
      [] code = 1 -> "CANCELLED"
      [] code = 2 -> "UNKNOWN"
      [] code = 3 -> "INVALID_ARGUMENT"
      [] code = 4 -> "DEADLINE_EXCEEDED"
      [] code = 5 -> "NOT_FOUND"
      [] code = 6 -> "ALREADY_EXISTS"
      [] code = 7 -> "PERMISSION_DENIED"
      [] code = 8 -> "RESOURCE_EXHAUSTED"
      [] code = 9 -> "FAILED_PRECONDITION"
      [] code = 10 -> "ABORTED"
      [] code = 11 -> "OUT_OF_RANGE"
      [] code = 12 -> "UNIMPLEMENTED"
      [] code = 13 -> "INTERNAL"
      [] code = 14 -> "UNAVAILABLE"
      [] code = 15 -> "DATA_LOSS"
      [] code = 16 -> "UNAUTHENTICATED"
      [] OTHER -> "UNKNOWN_STATUS_CODE"

\* StatusMap::format_error: the pieces written to the stream, in order.
format_error(s) ==
    << "gRPC error [", status_code_string(s.code), " (", ToString(s.code), ")]: ",
       s.message >>
    \o (IF s.details /= "" THEN << " | Details: ", s.details >> ELSE << >>)

\* A status comes back from the transport.
ReceiveStatus(s) ==
    /\ st_status' = s
    /\ st_godot_error' = "none"
    /\ st_formatted' = << >>
    /\ st_signal' = [sig |-> "none", code |-> 0, message |-> << >>]
    /\ UNCHANGED <<clientVars, hostVars, engineVars, threadVars, callVars, histVars,
                   startVars, unaryVars, contextVars, raceVars, emitVars, envVars>>

\* StatusMap::grpc_to_godot_error(status.error_code())
MapStatus ==
    /\ st_godot_error' = grpc_to_godot_error(st_status.code)
    /\ UNCHANGED <<clientVars, hostVars, engineVars, threadVars, callVars, histVars,
                   startVars, unaryVars, contextVars, raceVars, emitVars, envVars,
                   st_status, st_formatted, st_signal>>

\* StatusMap::format_error(status)
FormatError ==
    /\ st_formatted' = format_error(st_status)
    /\ UNCHANGED <<clientVars, hostVars, engineVars, threadVars, callVars, histVars,
                   startVars, unaryVars, contextVars, raceVars, emitVars, envVars,
                   st_status, st_godot_error, st_signal>>

\* The end of reader_thread with the status Finish filled: on_finished_ for
\* an OK status, else format_error for the log and on_error_; both are given
\* static_cast<int>(status.error_code()) and status.error_message(), which
\* on_stream_finished / on_stream_error pass on to call_deferred.
ReportStatus ==
    /\ st_signal' = [sig |-> IF st_status.code = 0 THEN "finished" ELSE "error",
                     code |-> st_status.code,
                     message |-> << st_status.message >>]
    /\ UNCHANGED <<clientVars, hostVars, engineVars, threadVars, callVars, histVars,
                   startVars, unaryVars, contextVars, raceVars, emitVars, envVars,
                   st_status, st_godot_error, st_formatted>>

StatusNext ==
    \/ \E s \in Statuses : ReceiveStatus(s)
    \/ MapStatus
    \/ FormatError
    \/ ReportStatus

StatusSpec == Init /\ [][StatusNext]_vars

\* C23: each of the 17 defined status codes is translated to a host error
\* other than the generic FAILED, and every other integer to FAILED.
C23_TranslationTotal ==
    st_godot_error /= "none"
        => IF st_status.code \in StatusCodes
           THEN st_godot_error \notin {"FAILED", "none"}
           ELSE st_godot_error = "FAILED"

C23_Witness == st_status.code = 16 /\ st_godot_error = "ERR_UNAUTHORIZED"


\* The "Error Codes" table of the API reference: the Godot error listed for
\* each gRPC status code.
ErrorCodesTable ==
    [code \in StatusCodes |->
        CASE code = 0 -> "OK"
          [] code = 1 -> "ERR_UNAVAILABLE"
          [] code = 2 -> "ERR_BUG"
          [] code = 3 -> "ERR_INVALID_PARAMETER"
          [] code = 4 -> "ERR_TIMEOUT"
          [] code = 5 -> "ERR_DOES_NOT_EXIST"
          [] code = 6 -> "ERR_ALREADY_EXISTS"
          [] code = 7 -> "ERR_UNAUTHORIZED"
          [] code = 8 -> "ERR_OUT_OF_MEMORY"
          [] code = 9 -> "ERR_UNCONFIGURED"
          [] code = 10 -> "ERR_UNAVAILABLE"
          [] code = 11 -> "ERR_INVALID_PARAMETER"
          [] code = 12 -> "ERR_UNAVAILABLE"
          [] code = 13 -> "ERR_BUG"
          [] code = 14 -> "ERR_UNAVAILABLE"
          [] code = 15 -> "ERR_FILE_CORRUPT"
          [] code = 16 -> "ERR_UNAUTHORIZED"]

\* C24: for each of the 17 status codes the translator returns the Godot
\* error the API reference lists for it.
C24_TranslationMatchesReference ==
    (st_godot_error /= "none" /\ st_status.code \in StatusCodes)
        => st_godot_error = ErrorCodesTable[st_status.code]


\* The values of the godot::Error enumerators the translator returns.
GodotErrorValue(name) ==
    CASE name = "OK" -> 0
      [] name = "FAILED" -> 1
      [] name = "ERR_UNAVAILABLE" -> 2
      [] name = "ERR_UNAUTHORIZED" -> 4
      [] name = "ERR_PARAMETER_RANGE_ERROR" -> 5
      [] name = "ERR_OUT_OF_MEMORY" -> 6
      [] name = "ERR_FILE_CORRUPT" -> 16
      [] name = "ERR_QUERY_FAILED" -> 21
      [] name = "ERR_TIMEOUT" -> 24
      [] name = "ERR_CANT_CONNECT" -> 25
      [] name = "ERR_INVALID_DATA" -> 30
      [] name = "ERR_INVALID_PARAMETER" -> 31
      [] name = "ERR_ALREADY_EXISTS" -> 32
      [] name = "ERR_DOES_NOT_EXIST" -> 33
      [] name = "ERR_BUSY" -> 44
      [] name = "ERR_BUG" -> 47

\* C25: the code of an error notification is the Godot error the status
\* mapping gives for the stream's status.
C25_ErrorCodeIsGodotError ==
    (st_signal.sig = "error" /\ st_status.code \in StatusCodes)
        => st_signal.code = GodotErrorValue(grpc_to_godot_error(st_status.code))

\* C26: the message of an error notification is the string format_error
\* builds from the status.
C26_ErrorMessageIsFormatted ==
    (st_signal.sig = "error" /\ st_status.code \in StatusCodes)
        => st_signal.message = format_error(st_status)


(* ------------------------ GrpcClient::create_context ------------------- *)

\* create_context, called by unary and start_stream with the options of the
\* call when the clock reads t: a deadline of deadline_ms from now when the
\* key "deadline_ms" is present, and the metadata pairs when "metadata" is.
create_context(opts, t) ==
    /\ call_opts' = opts
    /\ now' = t
    /\ context' =
          [has_deadline |-> "deadline_ms" \in DOMAIN opts,
           deadline |-> IF "deadline_ms" \in DOMAIN opts THEN t + opts["deadline_ms"] ELSE 0,
           metadata |-> IF "metadata" \in DOMAIN opts THEN opts["metadata"] ELSE << >>]
    /\ UNCHANGED <<clientVars, hostVars, engineVars, threadVars, callVars, histVars,
                   startVars, unaryVars, statusVars, raceVars, emitVars, envVars>>

ContextNext == \E opts \in CallOptions, t \in ClockReadings : create_context(opts, t)

ContextSpec == Init /\ [][ContextNext]_vars

\* C27: a call whose options hold "timeout_ms" with value N gets a context
\* whose deadline is N milliseconds after now.
C27_TimeoutSetsDeadline ==
    "timeout_ms" \in DOMAIN call_opts
        => /\ context.has_deadline
           /\ context.deadline = now + call_opts["timeout_ms"]


(* -------------- public methods called from several threads ------------- *)

\* A caller thread, as owner of streams_mutex_.
Caller(c) == <<"caller", c>>

\* One access of a method to state shared between threads: the member, read
\* or written, with streams_mutex_ held or not.
Access(member, kind, locked) == [member |-> member, kind |-> kind, locked |-> locked]

\* The accesses of each public method, in program order.
\*   connect: create_channel assigns channel_, then stub_.
\*   close: cancels and clears active_streams_ under the mutex, then
\*     GrpcChannelPool::close resets stub_ and channel_.
\*   is_connected: reads channel_.
\*   unary: get_stub() reads stub_.
\*   start_stream: get_stub() reads stub_, next_stream_id_++ under the mutex,
\*     active_streams_[stream_id] = ... under the mutex.
\*   stream_send: active_streams_.find under the mutex.
MethodAccesses ==
    [connect |-> << Access("channel_", "write", FALSE), Access("stub_", "write", FALSE) >>,
     close |-> << Access("active_streams_", "write", TRUE),
                  Access("stub_", "write", FALSE), Access("channel_", "write", FALSE) >>,
     is_connected |-> << Access("channel_", "read", FALSE) >>,
     unary |-> << Access("stub_", "read", FALSE) >>,
     start_stream |-> << Access("stub_", "read", FALSE),
                         Access("next_stream_id_", "write", TRUE),
                         Access("active_streams_", "write", TRUE) >>,
     stream_send |-> << Access("active_streams_", "read", TRUE) >>]

PublicMethods == DOMAIN MethodAccesses

\* The access a caller is about to make or is making.
NextAccess(c) == MethodAccesses[t_method[c]][t_step[c] + 1]

\* A thread calls a public method.
CallMethod(c, m) ==
    /\ t_method[c] = "none"
    /\ t_method' = [t_method EXCEPT ![c] = m]
    /\ UNCHANGED <<clientVars, hostVars, engineVars, threadVars, callVars, histVars,
                   startVars, unaryVars, statusVars, contextVars, emitVars, envVars, t_step, t_busy>>

\* The caller starts its next access, taking streams_mutex_ first when the
\* access is inside a lock_guard.
BeginAccess(c) ==
    /\ t_method[c] /= "none"
    /\ ~t_busy[c]
    /\ IF NextAccess(c).locked
       THEN /\ streams_mutex_ = NoThread
            /\ streams_mutex_' = Caller(c)
       ELSE UNCHANGED streams_mutex_
    /\ t_busy' = [t_busy EXCEPT ![c] = TRUE]
    /\ UNCHANGED <<channel_, stub_, next_stream_id_, active_streams_, deferred,
                   hostVars, engineVars, threadVars, callVars, histVars,
                   startVars, unaryVars, statusVars, contextVars, emitVars, envVars, t_method, t_step>>

\* The access is over: the lock_guard releases the mutex; after its last
\* access the method returns.
EndAccess(c) ==
    /\ t_busy[c]
    /\ streams_mutex_' = IF NextAccess(c).locked THEN NoThread ELSE streams_mutex_
    /\ t_busy' = [t_busy EXCEPT ![c] = FALSE]
    /\ IF t_step[c] + 1 = Len(MethodAccesses[t_method[c]])
       THEN /\ t_method' = [t_method EXCEPT ![c] = "none"]
            /\ t_step' = [t_step EXCEPT ![c] = 0]
       ELSE /\ t_step' = [t_step EXCEPT ![c] = @ + 1]
            /\ UNCHANGED t_method
    /\ UNCHANGED <<channel_, stub_, next_stream_id_, active_streams_, deferred,
                   hostVars, engineVars, threadVars, callVars, histVars,
                   startVars, unaryVars, statusVars, contextVars, emitVars, envVars>>

ThreadsNext ==
    \E c \in Callers :
        \/ \E m \in PublicMethods : CallMethod(c, m)
        \/ BeginAccess(c)
        \/ EndAccess(c)

ThreadsSpec == Init /\ [][ThreadsNext]_vars

\* C28: two threads are never at the same member at the same time, one of
\* them writing, unless both hold a common mutex.
C28_SharedStateUnderMutex ==
    \A c, d \in Callers :
        (c /= d /\ t_busy[c] /\ t_busy[d]
            /\ NextAccess(c).member = NextAccess(d).member
            /\ "write" \in {NextAccess(c).kind, NextAccess(d).kind})
        => (NextAccess(c).locked /\ NextAccess(d).locked)


(* ----------------------- the host's message queue ---------------------- *)

\* The host's main thread, between two facade calls, flushes its message
\* queue: the oldest call_deferred("emit_signal", ...) not yet run is run,
\* which emits the signal on that thread.
EmitNewest ==
    /\ ~crashed
    /\ hpc = "idle"
    /\ Len(emitted) < Len(deferred)
    /\ emitted' = Append(emitted, [n |-> deferred[Len(deferred)], thread |-> HostThread])
    /\ UNCHANGED <<clientVars, hostVars, engineVars, threadVars, callVars, histVars,
                   startVars, unaryVars, statusVars, contextVars, raceVars,
                   envVars>>

EmitDeferred ==
    /\ ~crashed
    /\ hpc = "idle"
    /\ Len(emitted) < Len(deferred)
    /\ emitted' = Append(emitted, [n |-> deferred[Len(emitted) + 1], thread |-> HostThread])
    /\ UNCHANGED <<clientVars, hostVars, engineVars, threadVars, callVars, histVars,
                   startVars, unaryVars, statusVars, contextVars, raceVars,
                   envVars>>

EmitNext == Next \/ EmitDeferred

EmitSpec == Init /\ [][EmitNext]_vars

\* The signals emitted for a handle, in the order of emission.
EmittedFor(h) == SelectSeq(emitted, LAMBDA e : e.n.id = h)

\* The payloads of the message signals emitted for a handle.
RECURSIVE Args(_)
Args(es) == IF es = << >> THEN << >> ELSE << Head(es).n.arg >> \o Args(Tail(es))

EmittedMessages(h) == Args(SelectSeq(EmittedFor(h), LAMBDA e : e.n.sig = "message"))
EmittedTerminals(h) == Args(SelectSeq(EmittedFor(h), LAMBDA e : e.n.sig /= "message"))

\* The statuses the terminal callbacks of a handle were invoked with.
RECURSIVE Codes(_)
Codes(fs) == IF fs = << >> THEN << >> ELSE << Head(fs).code >> \o Codes(Tail(fs))

ServerChange ==
    /\ server_reachable' = ~server_reachable
    /\ UNCHANGED <<clientVars, hostVars, engineVars, threadVars, callVars, histVars,
                   startVars, unaryVars, statusVars, contextVars, raceVars, emitVars>>

ReachNext == UnaryStep \/ ServerChange

ReachSpec == Init /\ [][ReachNext]_vars

\* C30: a connect() made while no server is reachable at the endpoint
\* returns false.
C30_ConnectFailsWithoutServer ==
    [][(~server_reachable /\ lastRet' /= lastRet /\ lastRet'.op = "connect")
          => lastRet'.ret = 0]_vars


(* ------------------------------- closing ------------------------------- *)

\* The step by which close() returns: at once when the registry was empty,
\* else when the destructor of the last engine returns.
CloseReturns ==
    \/ Close /\ active_streams_ = {}
    \/ DtorJoinReader /\ hop = "close" /\ doomed = {}

\* C31: close() on a facade that is closed or was never connected changes
\* nothing, and when close() returns the facade is closed (no channel, no
\* stub, empty registry), so that a second close() leaves the state of the
\* first.
C31_CloseIdempotent ==
    [][/\ (Close /\ ~channel_ /\ ~stub_) => UNCHANGED vars
       /\ CloseReturns => (~channel_' /\ ~stub_' /\ active_streams_' = {})]_vars

C31_Witness ==
    /\ hpc = "idle"
    /\ ~channel_ /\ ~stub_
    /\ lastRet = Returned("connect", 0, 1)


\* C32: over the lifetime of an engine at most one terminal callback fires.
C32_AtMostOneTerminalCallback ==
    \A h \in Handles : Len(fired[h]) <= 1


(* ------------------------- completion events -------------------------- *)
\* The operations whose tags the reader thread issues, and the writer's.
ReaderOps == {"Read", "Finish"}

WriterOps == {"Write", "WritesDone"}

\* C33: the reader thread takes from the completion queue only events of a
\* Read or a Finish, and the writer thread only events of a Write or a
\* WritesDone.
C33_OwnCompletionsOnly ==
    [][\A h \in Handles :
          /\ (ReaderReadNext(h) \/ ReaderFinishNext(h))
                => Head(cq_[h]).op \in ReaderOps
          /\ (WriterWriteNext(h) \/ WriterWritesDoneNext(h))
                => Head(cq_[h]).op \in WriterOps]_vars


\* C34: on a stream's duplex handle at most one of the writer's operations
\* (Write, WritesDone) and at most one of the reader's (Read, Finish) has
\* been issued and not yet completed.
C34_OneOutstandingPerDirection ==
    \A h \in Handles :
        /\ ops[h]["Write"] + ops[h]["WritesDone"] <= 1
        /\ ops[h]["Read"] + ops[h]["Finish"] <= 1


(* ---------------------------- destruction ----------------------------- *)
\* ~GrpcStream of engine h is running on h's own reader thread.
DtorOnReader(h) == obj[h] = "dying" /\ rthr[h] = "dtor_join_writer"

\* C35: the destructor of an engine never runs on one of the engine's own
\* worker threads, so no worker joins itself.
C35_NeverDestroyedOnOwnWorker ==
    \A h \in Handles : ~DtorOnReader(h)


\* A worker thread that was never spawned or has returned.
Stopped(t) == t \in {"none", "done"}

\* C36: an engine's completion queue is shut down only when neither its
\* reader nor its writer thread is still running.
C36_ShutdownAfterWorkersStopped ==
    \A h \in Handles :
        cq_shutdown[h] => (Stopped(rthr[h]) /\ Stopped(wthr[h]))

C36_Witness ==
    \E h \in Handles :
        /\ cq_shutdown[h]
        /\ rthr[h] = "done"
        /\ wthr[h] = "done"


(* ---------------------------- failed writes ---------------------------- *)
\* A Write of the writer thread of h has completed without success and its
\* event is on the completion queue.
FailedWrite(h) ==
    /\ wthr[h] /= "none"
    /\ \E i \in 1..Len(cq_[h]) : cq_[h][i].op = "Write" /\ ~cq_[h][i].ok

\* C37: no step of the writer thread invokes a callback or schedules a
\* notification; a terminal callback of an engine with a writer is invoked by
\* the reader's finish step only, and after a failed write the call's final
\* status is eventually reported by exactly one terminal callback.
C37_WriterNeverReports ==
    /\ [][\A h \in Handles :
             /\ WriterStep(h) => UNCHANGED <<fired, deferred>>
             /\ (wthr[h] /= "none" /\ fired'[h] /= fired[h]) => ReaderFinishNext(h)]_vars
    /\ \A h \in Handles :
          FailedWrite(h) ~> (Len(fired[h]) = 1 /\ fired[h][1].code = CallStatus(h))


(* ---------------------------- unknown handles -------------------------- *)
\* C38: stream_send on a handle that is not in the registry returns false,
\* stream_close_send, stream_cancel and server_stream_cancel on such a handle
\* do nothing; the registry, the handle counter and every engine are
\* unchanged.
C38_UnknownHandleNoEffect ==
    [][\A h \in Handles :
          h \notin active_streams_ =>
             /\ (\E m \in Payloads : StreamSendBegin(h, m))
                   => /\ lastRet' = Returned("stream_send", h, 0)
                      /\ UNCHANGED <<active_streams_, next_stream_id_, engineVars,
                                     threadVars, callVars>>
             /\ (StreamCloseSend(h) \/ StreamCancelUnknown(h))
                   => UNCHANGED vars]_vars

\* stream_send on a handle that was never allocated has returned false.
C38_Witness ==
    \E h \in Handles :
        /\ obj[h] = "none"
        /\ next_stream_id_ = 1
        /\ lastRet = Returned("stream_send", h, 0)


(* ------------------------- progress of the writer ---------------------- *)
\* The engine of h has stopped being active or its call is over, so that a
\* Write on it no longer succeeds.
StreamOver(h) == ~active_[h] \/ call[h] /= "open"

\* C39: on a client-streaming or bidirectional stream that stays active with
\* its call open, every accepted message is eventually handed to Write, and
\* once the queue has been closed the writer eventually issues WritesDone and
\* exits.
C39_AcceptedEventuallyWritten ==
    \A h \in Handles :
        /\ (stream_type_[h] /= "SERVER_STREAMING" /\ write_queue_[h] /= << >>)
              ~> (write_queue_[h] = << >> \/ StreamOver(h))
        /\ (stream_type_[h] /= "SERVER_STREAMING" /\ wthr[h] /= "none"
                /\ write_queue_closed_[h])
              ~> ((wthr[h] = "done" /\ wdone[h] >= 1) \/ StreamOver(h))


(* ------------------------ order of notifications ----------------------- *)
\* C40: among the notifications scheduled for the host, no "message" of a
\* handle comes after the "finished" or "error" of the same handle.
C40_NoMessageAfterTerminal ==
    \A i, j \in 1..Len(deferred) :
        (i < j /\ IsTerminal(deferred[i]) /\ deferred[j].id = deferred[i].id)
            => deferred[j].sig /= "message"

\* A message and then the terminal notification have been scheduled for a
\* handle.
C40_Witness ==
    \E i, j \in 1..Len(deferred) :
        /\ i < j
        /\ deferred[i].sig = "message"
        /\ IsTerminal(deferred[j])
        /\ deferred[j].id = deferred[i].id

=============================================================================
